---- MODULE Spec2Model ----
(***************************************************************************)
(* The 'play' state of the Asteroids game (GameState_Asteroids.c): the     *)
(* fixed-capacity store of game object instances, the create / destroy     *)
(* lifecycle, and the Init / Update / Free hooks called by the host.       *)
(*                                                                         *)
(* Numbers.  The C code computes in float.  Here every quantity lies on an *)
(* integer grid:                                                           *)
(*   - time is counted in ticks of 1/4 second (a frame time is 1 or 4      *)
(*     ticks, see Inputs);                                                 *)
(*   - a position is counted in quarter world units, so that               *)
(*     position + velocity * frameTime is exact for an integer velocity;   *)
(*   - a velocity is counted in world units per second, and the results of *)
(*     the trigonometric and friction products are rounded toward zero;    *)
(*   - an angle is counted in steps of pi/8 (PI == 8).                     *)
(* A component pointer is a sequence of length 0 (the null pointer) or 1   *)
(* (the pointed-to record).                                                *)
(***************************************************************************)
EXTENDS Integers, Sequences, FiniteSets, TLC

\* ------------------------------------------------------------------ bounds

\* Capacity of the instance store (2048 in the source), scaled down.
GAME_OBJ_INST_NUM_MAX == 5

\* The number of Update calls a run may make.
MaxFrames == 5

\* Half width and half height of the viewport, in world units; the viewport
\* is centred on the origin.
WinMaxX == 400

WinMaxY == 300

\* ------------------------------------------------------- program constants

SHIP_INITIAL_NUM == 3

SHIP_SIZE == 25

SHIP_ACCEL_FORWARD == 75

SHIP_ACCEL_BACKWARD == -100

PI == 8

SHIP_ROT_SPEED == 2 * PI

HOMING_MISSILE_ROT_SPEED == PI \div 2

BULLET_SPEED == 150

\* FRICTION is 0.99f: FRICTION_NUM / FRICTION_DEN.
FRICTION_NUM == 99

FRICTION_DEN == 99 + 1

BULLET_SIZE == 5

ASTEROID_SIZE == 50

MISSILE_WIDTH == 10

MISSILE_HEIGHT == 5

MISSILE_SPEED == 75

OBJECT_TYPE_SHIP == 0

OBJECT_TYPE_BULLET == 1

OBJECT_TYPE_ASTEROID == 2

OBJECT_TYPE_HOMING_MISSILE == 3

ObjectTypes == {OBJECT_TYPE_SHIP, OBJECT_TYPE_BULLET, OBJECT_TYPE_ASTEROID,
                OBJECT_TYPE_HOMING_MISSILE}

FLAG_ACTIVE == 1

\* --------------------------------------------------------------- the grid

\* Ticks per second, and grid steps per world unit.
Q(x) == 4 * x

\* a / b rounded toward zero, as a float-to-grid conversion.
Trunc(a, b) == IF a >= 0 THEN a \div b ELSE -((-a) \div b)

Abs(x) == IF x < 0 THEN -x ELSE x

Min(a, b) == IF a < b THEN a ELSE b

WinMinX == -WinMaxX

WinMinY == -WinMaxY

\* 1000 * sin(k * pi/8) for k = 0..4.
SinQuarter == <<0, 383, 707, 924, 1000>>

\* 1000 * sinf(a), a in steps of pi/8.
Sin1000(a) ==
    LET k == a % (2 * PI)
    IN  IF k <= 4 THEN SinQuarter[k + 1]
        ELSE IF k <= 8 THEN SinQuarter[(8 - k) + 1]
        ELSE IF k <= 12 THEN -SinQuarter[(k - 8) + 1]
        ELSE -SinQuarter[(16 - k) + 1]

\* 1000 * cosf(a), a in steps of pi/8.
Cos1000(a) == Sin1000(a + 4)

\* ---------------------------------------------------------- the instances

NULL == << >>

Slots == 0 .. (GAME_OBJ_INST_NUM_MAX - 1)

\* A zeroed GameObjectInstance (memset 0 / static storage).
ZeroInstance ==
    [mFlag |-> 0,
     mpComponent_Sprite |-> NULL,
     mpComponent_Transform |-> NULL,
     mpComponent_Physics |-> NULL,
     mpComponent_Target |-> NULL]

\* The 2x3 matrix of a calloc'ed Component_Transform.
ZeroMatrix == << <<0, 0, 0>>, <<0, 0, 0>> >>

VARIABLES
    sgGameObjectInstanceList,   \* Slots -> GameObjectInstance
    sgGameObjectInstanceNum,    \* the counter of active instances
    sgpShip,                    \* NULL or <<slot index>>
    sgpShipStartPos,            \* the respawn baseline position
    sgpShipStartPhys,           \* the respawn baseline velocity
    sgScore,
    sgShipLives,
    phase,                      \* "loaded", "running" or "freed"
    fault,                      \* "none", or "null_deref" once the process died
    frame,                      \* the number of Update calls so far
    input,                      \* the input of the last Update call
    trace                       \* what the last Update call did (see Update)

vars == <<sgGameObjectInstanceList, sgGameObjectInstanceNum, sgpShip,
          sgpShipStartPos, sgpShipStartPhys, sgScore, sgShipLives, phase,
          fault, frame, input, trace>>

\* The program's globals as one record g: list, num, ship, startPos, startPhys.
Globals ==
    [list |-> sgGameObjectInstanceList,
     num |-> sgGameObjectInstanceNum,
     ship |-> sgpShip,
     startPos |-> sgpShipStartPos,
     startPhys |-> sgpShipStartPhys]

\* pInst->mpComponent_Sprite->mpShape->mType
TypeOf(list, i) == list[i].mpComponent_Sprite[1].mpShape

\* pInst->mpComponent_Transform->mPosition and friends
PosOf(list, i) == list[i].mpComponent_Transform[1].mPosition

AngleOf(list, i) == list[i].mpComponent_Transform[1].mAngle

VelOf(list, i) == list[i].mpComponent_Physics[1].mVelocity

SetPos(list, i, p) ==
    [list EXCEPT ![i].mpComponent_Transform[1].mPosition = p]

SetVel(list, i, v) ==
    [list EXCEPT ![i].mpComponent_Physics[1].mVelocity = v]

SetAngle(list, i, a) ==
    [list EXCEPT ![i].mpComponent_Transform[1].mAngle = a]

\* ------------------------------------------------------------- components

\* AddComponent_Transform on an instance whose pointer is null: calloc, then
\* scale, position (zero when pPosition is null), angle.
AddComponent_Transform(inst, pPosition, Angle, ScaleX, ScaleY) ==
    [inst EXCEPT !.mpComponent_Transform =
        << [mPosition |-> IF pPosition = NULL THEN <<0, 0>> ELSE pPosition[1],
            mAngle |-> Angle,
            mScaleX |-> ScaleX,
            mScaleY |-> ScaleY,
            mTransform |-> ZeroMatrix] >>]

AddComponent_Sprite(inst, ShapeType) ==
    [inst EXCEPT !.mpComponent_Sprite = << [mpShape |-> ShapeType] >>]

AddComponent_Physics(inst, pVelocity) ==
    [inst EXCEPT !.mpComponent_Physics =
        << [mVelocity |-> IF pVelocity = NULL THEN <<0, 0>> ELSE pVelocity[1]] >>]

AddComponent_Target(inst, pTarget) ==
    [inst EXCEPT !.mpComponent_Target = << [mpTarget |-> pTarget] >>]

RemoveComponent_Transform(inst) == [inst EXCEPT !.mpComponent_Transform = NULL]

RemoveComponent_Sprite(inst) == [inst EXCEPT !.mpComponent_Sprite = NULL]

RemoveComponent_Physics(inst) == [inst EXCEPT !.mpComponent_Physics = NULL]

RemoveComponent_Target(inst) == [inst EXCEPT !.mpComponent_Target = NULL]

\* ------------------------------------------------------- create / destroy

\* The slots whose flag is 0, and the one the scan of Create stops at.
FreeSlots(list) == {i \in Slots : list[i].mFlag = 0}

FirstFree(list) == CHOOSE i \in FreeSlots(list) : \A j \in FreeSlots(list) : i <= j

\* The instance of a Create that attaches a Target component whatever the
\* object type.
NewInstance_TargetForAll(g, ObjectType) ==
    LET blank == [ZeroInstance EXCEPT !.mFlag = FLAG_ACTIVE]
        shipT == g.list[g.ship[1]].mpComponent_Transform[1]
    IN  AddComponent_Target(
          AddComponent_Physics(
            CASE ObjectType = OBJECT_TYPE_SHIP ->
                   AddComponent_Transform(
                     AddComponent_Sprite(blank, OBJECT_TYPE_SHIP),
                     NULL, 0, SHIP_SIZE, SHIP_SIZE)
              [] ObjectType = OBJECT_TYPE_BULLET ->
                   AddComponent_Transform(
                     AddComponent_Sprite(blank, OBJECT_TYPE_BULLET),
                     <<shipT.mPosition>>, 0, BULLET_SIZE, BULLET_SIZE)
              [] ObjectType = OBJECT_TYPE_ASTEROID ->
                   AddComponent_Transform(
                     AddComponent_Sprite(blank, OBJECT_TYPE_ASTEROID),
                     NULL, 0, ASTEROID_SIZE, ASTEROID_SIZE)
              [] ObjectType = OBJECT_TYPE_HOMING_MISSILE ->
                   AddComponent_Transform(
                     AddComponent_Sprite(blank, OBJECT_TYPE_HOMING_MISSILE),
                     <<shipT.mPosition>>, shipT.mAngle,
                     MISSILE_WIDTH, MISSILE_HEIGHT),
            NULL),
          NULL)

\* The instance Create builds in a slot: flag set, pointers cleared, then the
\* components of the object type.  The bullet and the missile read the ship.
NewInstance(g, ObjectType) ==
    LET blank == [ZeroInstance EXCEPT !.mFlag = FLAG_ACTIVE]
        shipT == g.list[g.ship[1]].mpComponent_Transform[1]
    IN  CASE ObjectType = OBJECT_TYPE_SHIP ->
               AddComponent_Physics(
                 AddComponent_Transform(
                   AddComponent_Sprite(blank, OBJECT_TYPE_SHIP),
                   NULL, 0, SHIP_SIZE, SHIP_SIZE),
                 NULL)
          [] ObjectType = OBJECT_TYPE_BULLET ->
               AddComponent_Physics(
                 AddComponent_Transform(
                   AddComponent_Sprite(blank, OBJECT_TYPE_BULLET),
                   <<shipT.mPosition>>, 0, BULLET_SIZE, BULLET_SIZE),
                 NULL)
          [] ObjectType = OBJECT_TYPE_ASTEROID ->
               AddComponent_Physics(
                 AddComponent_Transform(
                   AddComponent_Sprite(blank, OBJECT_TYPE_ASTEROID),
                   NULL, 0, ASTEROID_SIZE, ASTEROID_SIZE),
                 NULL)
          [] ObjectType = OBJECT_TYPE_HOMING_MISSILE ->
               AddComponent_Target(
                 AddComponent_Physics(
                   AddComponent_Transform(
                     AddComponent_Sprite(blank, OBJECT_TYPE_HOMING_MISSILE),
                     <<shipT.mPosition>>, shipT.mAngle,
                     MISSILE_WIDTH, MISSILE_HEIGHT),
                   NULL),
                 NULL)

\* Create that counts an instance even when it found no slot.
Create_CountsFailure(g, ObjectType) ==
    IF FreeSlots(g.list) = {}
    THEN [g |-> [g EXCEPT !.num = g.num + 1], ret |-> NULL]
    ELSE LET i == FirstFree(g.list)
             inst == NewInstance(g, ObjectType)
             g1 == [g EXCEPT !.list[i] = inst, !.num = g.num + 1]
             g2 == IF ObjectType = OBJECT_TYPE_SHIP
                   THEN [g1 EXCEPT
                           !.startPos = inst.mpComponent_Transform[1].mPosition,
                           !.startPhys = inst.mpComponent_Physics[1].mVelocity]
                   ELSE g1
         IN  [g |-> g2, ret |-> <<i>>]

\* Create whose scan keeps the last free slot it sees.
Create_LastFree(g, ObjectType) ==
    IF FreeSlots(g.list) = {}
    THEN [g |-> g, ret |-> NULL]
    ELSE LET i == CHOOSE k \in FreeSlots(g.list) :
                    \A j \in FreeSlots(g.list) : k >= j
             inst == NewInstance(g, ObjectType)
             g1 == [g EXCEPT !.list[i] = inst, !.num = g.num + 1]
             g2 == IF ObjectType = OBJECT_TYPE_SHIP
                   THEN [g1 EXCEPT
                           !.startPos = inst.mpComponent_Transform[1].mPosition,
                           !.startPhys = inst.mpComponent_Physics[1].mVelocity]
                   ELSE g1
         IN  [g |-> g2, ret |-> <<i>>]

\* Create that records the baseline from every new instance, not from the
\* ship only.
Create_BaselineAlways(g, ObjectType) ==
    IF FreeSlots(g.list) = {}
    THEN [g |-> g, ret |-> NULL]
    ELSE [g |-> [g EXCEPT
                   !.list[FirstFree(g.list)] = NewInstance(g, ObjectType),
                   !.num = g.num + 1,
                   !.startPos = NewInstance(g, ObjectType)
                                  .mpComponent_Transform[1].mPosition,
                   !.startPhys = NewInstance(g, ObjectType)
                                   .mpComponent_Physics[1].mVelocity],
          ret |-> <<FirstFree(g.list)>>]

\* GameObjectInstanceCreate: [g |-> the globals after the call, ret |-> NULL
\* or <<the slot of the new instance>>].
GameObjectInstanceCreate(g, ObjectType) ==
    IF FreeSlots(g.list) = {}
    THEN [g |-> g, ret |-> NULL]
    ELSE LET i == FirstFree(g.list)
             inst == NewInstance(g, ObjectType)
             g1 == [g EXCEPT !.list[i] = inst, !.num = g.num + 1]
             g2 == IF ObjectType = OBJECT_TYPE_SHIP
                   THEN [g1 EXCEPT
                           !.startPos = inst.mpComponent_Transform[1].mPosition,
                           !.startPhys = inst.mpComponent_Physics[1].mVelocity]
                   ELSE g1
         IN  [g |-> g2, ret |-> <<i>>]

\* Destroy that forgets to release the Target component.
Destroy_LeaksTarget(g, i) ==
    IF g.list[i].mFlag = 0
    THEN g
    ELSE [g EXCEPT
            !.list[i] =
                RemoveComponent_Physics(
                  RemoveComponent_Sprite(
                    RemoveComponent_Transform(
                      [g.list[i] EXCEPT !.mFlag = 0]))),
            !.num = g.num - 1]

\* Destroy without the early return on an inactive slot.
Destroy_NoGuard(g, i) ==
    [g EXCEPT !.list[i] = ZeroInstance, !.num = g.num - 1]

\* Destroy that closes the gap: the slots above i move down by one.
Destroy_Compacts(g, i) ==
    IF g.list[i].mFlag = 0
    THEN g
    ELSE [g EXCEPT
            !.list = [k \in Slots |->
                        IF k < i THEN g.list[k]
                        ELSE IF k + 1 \in Slots THEN g.list[k + 1]
                        ELSE ZeroInstance],
            !.num = g.num - 1]

\* GameObjectInstanceDestroy(&sgGameObjectInstanceList[i])
GameObjectInstanceDestroy(g, i) ==
    IF g.list[i].mFlag = 0
    THEN g
    ELSE [g EXCEPT
            !.list[i] =
                RemoveComponent_Target(
                  RemoveComponent_Physics(
                    RemoveComponent_Sprite(
                      RemoveComponent_Transform(
                        [g.list[i] EXCEPT !.mFlag = 0])))),
            !.num = g.num - 1]

\* ------------------------------------------------------------------ Init

\* One asteroid of GameStateAsteroidsInit: create, then set the position and
\* the velocity and multiply the scale.
InitAsteroid(g, pos, vel, k) ==
    LET r == GameObjectInstanceCreate(g, OBJECT_TYPE_ASTEROID)
        p == r.ret[1]
        t == r.g.list[p].mpComponent_Transform[1]
    IN  [r.g EXCEPT
           !.list[p].mpComponent_Transform[1].mPosition = pos,
           !.list[p].mpComponent_Physics[1].mVelocity = vel,
           !.list[p].mpComponent_Transform[1].mScaleX = t.mScaleX * k,
           !.list[p].mpComponent_Transform[1].mScaleY = t.mScaleY * k]

\* Init without the memset and the counter reset.
InitGlobals_NoReset(g) ==
    LET r == GameObjectInstanceCreate(g, OBJECT_TYPE_SHIP)
        g1 == [r.g EXCEPT !.ship = r.ret]
        g2 == InitAsteroid(g1, <<Q(75), Q(321)>>, <<60, -45>>, 3)
        g3 == InitAsteroid(g2, <<Q(-75), Q(75)>>, <<-30, 20>>, 2)
    IN  InitAsteroid(g3, <<Q(200), Q(10)>>, <<-10, 22>>, 1)

\* Init that zeroes the array and leaves the counter as it is.
InitGlobals_KeepsCount(g) ==
    LET g0 == [g EXCEPT !.list = [i \in Slots |-> ZeroInstance]]
        r == GameObjectInstanceCreate(g0, OBJECT_TYPE_SHIP)
        g1 == [r.g EXCEPT !.ship = r.ret]
        g2 == InitAsteroid(g1, <<Q(75), Q(321)>>, <<60, -45>>, 3)
        g3 == InitAsteroid(g2, <<Q(-75), Q(75)>>, <<-30, 20>>, 2)
    IN  InitAsteroid(g3, <<Q(200), Q(10)>>, <<-10, 22>>, 1)

\* The globals when GameStateAsteroidsInit returns: the array zeroed, the
\* ship created and pointed to, three asteroids created.
InitGlobals(g) ==
    LET g0 == [g EXCEPT !.list = [i \in Slots |-> ZeroInstance], !.num = 0]
        r == GameObjectInstanceCreate(g0, OBJECT_TYPE_SHIP)
        g1 == [r.g EXCEPT !.ship = r.ret]
        g2 == InitAsteroid(g1, <<Q(75), Q(321)>>, <<60, -45>>, 3)
        g3 == InitAsteroid(g2, <<Q(-75), Q(75)>>, <<-30, 20>>, 2)
    IN  InitAsteroid(g3, <<Q(200), Q(10)>>, <<-10, 22>>, 1)

\* -------------------------------------------------------------------- Free

\* The loop of GameStateAsteroidsFree from index i on: it goes on while the
\* counter is positive, i is in range and slot i is active.
RECURSIVE FreeLoop(_, _)
FreeLoop(g, i) ==
    IF g.num > 0 /\ i < GAME_OBJ_INST_NUM_MAX /\ g.list[i].mFlag = FLAG_ACTIVE
    THEN FreeLoop(GameObjectInstanceDestroy(g, i), i + 1)
    ELSE g

\* ------------------------------------------------------------------ Update

\* AEWrap(x, x0, x1) of the engine.
AEWrap(x, x0, x1) ==
    IF x < x0 THEN x + (x1 - x0)
    ELSE IF x > x1 THEN x - (x1 - x0)
    ELSE x

\* The ship's velocity after one thrust: (accel * frameTime + velocity) *
\* FRICTION, accel being Accel along the heading.
ThrustVelocity(v, angle, Accel, dt) ==
    << Trunc((Accel * Cos1000(angle) * dt + v[1] * Q(1000)) * FRICTION_NUM,
             Q(1000) * FRICTION_DEN),
       Trunc((Accel * Sin1000(angle) * dt + v[2] * Q(1000)) * FRICTION_NUM,
             Q(1000) * FRICTION_DEN) >>

\* Speed * (cosf(angle), sinf(angle))
Heading(Speed, angle) ==
    << Trunc(Speed * Cos1000(angle), 1000), Trunc(Speed * Sin1000(angle), 1000) >>

\* One thrust key of Update (UP or DOWN): when held, the ship's velocity is
\* replaced by the thrust velocity.
Thrust(list, s, held, Accel, dt) ==
    IF held
    THEN SetVel(list, s,
           ThrustVelocity(VelOf(list, s), AngleOf(list, s), Accel, dt))
    ELSE list

\* One turn key of Update (LEFT or RIGHT): when held, the ship's angle moves
\* by da and is wrapped into [-PI, PI].
Turn(list, s, held, da) ==
    IF held
    THEN SetAngle(list, s, AEWrap(AngleOf(list, s) + da, -PI, PI))
    ELSE list

\* The ship's velocity times FRICTION, with no thrust.
DampShip(list, s, dt) ==
    SetVel(list, s, ThrustVelocity(VelOf(list, s), AngleOf(list, s), 0, dt))

\* The ship control that damps the velocity in every frame, after the keys.
ShipControl_AlwaysDamps(g, in) ==
    [g EXCEPT !.list =
        DampShip(
          Turn(
            Turn(
              Thrust(
                Thrust(g.list, g.ship[1], "UP" \in in.curr,
                       SHIP_ACCEL_FORWARD, in.dt),
                g.ship[1], "DOWN" \in in.curr, SHIP_ACCEL_BACKWARD, in.dt),
              g.ship[1], "LEFT" \in in.curr, Trunc(SHIP_ROT_SPEED * in.dt, Q(1))),
            g.ship[1], "RIGHT" \in in.curr, -Trunc(SHIP_ROT_SPEED * in.dt, Q(1))),
          g.ship[1], in.dt)]

\* The ship control of Update: the four held keys, in the order of the code.
ShipControl(g, in) ==
    [g EXCEPT !.list =
        Turn(
          Turn(
            Thrust(
              Thrust(g.list, g.ship[1], "UP" \in in.curr,
                     SHIP_ACCEL_FORWARD, in.dt),
              g.ship[1], "DOWN" \in in.curr, SHIP_ACCEL_BACKWARD, in.dt),
            g.ship[1], "LEFT" \in in.curr, Trunc(SHIP_ROT_SPEED * in.dt, Q(1))),
          g.ship[1], "RIGHT" \in in.curr, -Trunc(SHIP_ROT_SPEED * in.dt, Q(1)))]

\* One spawn request of Update: create, then write the velocity through the
\* returned pointer.  u is [g, fault, spawned]; a null return is dereferenced.
Spawn(u, ObjectType, Speed) ==
    IF u.fault # "none" THEN u
    ELSE LET r == GameObjectInstanceCreate(u.g, ObjectType)
         IN  IF r.ret = NULL
             THEN [u EXCEPT !.g = r.g, !.fault = "null_deref"]
             ELSE [u EXCEPT
                     !.g = [r.g EXCEPT !.list =
                              SetVel(r.g.list, r.ret[1],
                                     Heading(Speed, AngleOf(r.g.list, r.g.ship[1])))],
                     !.spawned = u.spawned \cup {r.ret[1]}]

\* The spawn requests that fire while the key is held.
SpawnRequests_WhileHeld(g, in) ==
    LET u0 == [g |-> g, fault |-> "none", spawned |-> {}]
        u1 == IF "SPACE" \in in.curr
              THEN Spawn(u0, OBJECT_TYPE_BULLET, BULLET_SPEED) ELSE u0
    IN  IF "M" \in in.curr
        THEN Spawn(u1, OBJECT_TYPE_HOMING_MISSILE, MISSILE_SPEED) ELSE u1

\* The two spawn requests of Update, SPACE then 'M'.
SpawnRequests(g, in) ==
    LET u0 == [g |-> g, fault |-> "none", spawned |-> {}]
        u1 == IF "SPACE" \in in.trig
              THEN Spawn(u0, OBJECT_TYPE_BULLET, BULLET_SPEED) ELSE u0
    IN  IF "M" \in in.trig
        THEN Spawn(u1, OBJECT_TYPE_HOMING_MISSILE, MISSILE_SPEED) ELSE u1

\* The integration loop that leaves the ship where it is.
Integrate_SkipsShip(list, dt) ==
    [i \in Slots |->
        IF list[i].mFlag = FLAG_ACTIVE /\ TypeOf(list, i) # OBJECT_TYPE_SHIP
        THEN [list[i] EXCEPT !.mpComponent_Transform[1].mPosition =
                << PosOf(list, i)[1] + VelOf(list, i)[1] * dt,
                   PosOf(list, i)[2] + VelOf(list, i)[2] * dt >>]
        ELSE list[i]]

\* The integration loop of Update: every active instance moves by
\* velocity * frameTime.
Integrate(list, dt) ==
    [i \in Slots |->
        IF list[i].mFlag = FLAG_ACTIVE
        THEN [list[i] EXCEPT !.mpComponent_Transform[1].mPosition =
                << PosOf(list, i)[1] + VelOf(list, i)[1] * dt,
                   PosOf(list, i)[2] + VelOf(list, i)[2] * dt >>]
        ELSE list[i]]

\* The direction of a non-zero vector, rounded to the nearest step of pi/8
\* (0 .. 15): the thresholds are 1000 * tan of pi/16, 3pi/16, 5pi/16, 7pi/16.
Dir16(v) ==
    LET ax == Abs(v[1])
        ay == Abs(v[2])
        q == IF ay * 1000 < 199 * ax THEN 0
             ELSE IF ay * 1000 < 668 * ax THEN 1
             ELSE IF ay * 1000 < 1497 * ax THEN 2
             ELSE IF ay * 1000 < 5027 * ax THEN 3
             ELSE 4
    IN  IF v[1] >= 0 /\ v[2] >= 0 THEN q
        ELSE IF v[1] < 0 /\ v[2] >= 0 THEN 8 - q
        ELSE IF v[1] < 0 THEN 8 + q
        ELSE (16 - q) % 16

\* acosf of the normalised dot product of two non-zero vectors, in steps of
\* pi/8 (0 .. 8).
AngleBetween(v, w) ==
    LET d == (Dir16(v) - Dir16(w)) % 16
    IN  Min(d, 16 - d)

\* Whether the missile's target pointer may be used: non-null and the slot it
\* points to has mFlag == FLAG_ACTIVE.
TargetUsable(list, i) ==
    LET t == list[i].mpComponent_Target[1].mpTarget
    IN  t # NULL /\ list[t[1]].mFlag = FLAG_ACTIVE

\* The active asteroids, and the one the acquisition scan stops at.
ActiveAsteroids(list) ==
    {k \in Slots : list[k].mFlag = FLAG_ACTIVE /\ TypeOf(list, k) = OBJECT_TYPE_ASTEROID}

\* The acquisition whose scan does not stop at the first asteroid, so that
\* the last one found stays.
Acquire_LastFound(list, i) ==
    IF TargetUsable(list, i) \/ ActiveAsteroids(list) = {}
    THEN list
    ELSE [list EXCEPT ![i].mpComponent_Target[1].mpTarget =
            << CHOOSE k \in ActiveAsteroids(list) :
                 \A m \in ActiveAsteroids(list) : k >= m >>]

\* The target acquisition of a missile whose pointer is not usable: the
\* lowest-index active asteroid, the pointer left as it is when there is none.
Acquire(list, i) ==
    IF TargetUsable(list, i) \/ ActiveAsteroids(list) = {}
    THEN list
    ELSE [list EXCEPT ![i].mpComponent_Target[1].mpTarget =
            << CHOOSE k \in ActiveAsteroids(list) :
                 \A m \in ActiveAsteroids(list) : k <= m >>]

\* The steering step that leaves the velocity a unit vector.
Steer_Unscaled(list, i, dt) ==
    LET t == list[i].mpComponent_Target[1].mpTarget[1]
        mVel == VelOf(list, i)
        normal == <<-mVel[2], mVel[1]>>
        asteroidVec == << PosOf(list, t)[1] - PosOf(list, i)[1],
                          PosOf(list, t)[2] - PosOf(list, i)[2] >>
        a0 == Min(Trunc(HOMING_MISSILE_ROT_SPEED * dt, Q(1)),
                  AngleBetween(mVel, asteroidVec))
        a == IF normal[1] * asteroidVec[1] + normal[2] * asteroidVec[2] < 0
             THEN -a0 ELSE a0
        curAngle == AngleOf(list, i) + a
    IN  SetVel(SetAngle(list, i, curAngle), i, Heading(1, curAngle))

\* The steering step of missile i toward the slot its target points to.  With
\* the missile exactly on its target the C code divides by a zero length; the
\* runs of this model never get there (SteerDefined).
Steer(list, i, dt) ==
    LET t == list[i].mpComponent_Target[1].mpTarget[1]
        mVel == VelOf(list, i)
        normal == <<-mVel[2], mVel[1]>>
        asteroidVec == << PosOf(list, t)[1] - PosOf(list, i)[1],
                          PosOf(list, t)[2] - PosOf(list, i)[2] >>
        a0 == Min(Trunc(HOMING_MISSILE_ROT_SPEED * dt, Q(1)),
                  AngleBetween(mVel, asteroidVec))
        a == IF normal[1] * asteroidVec[1] + normal[2] * asteroidVec[2] < 0
             THEN -a0 ELSE a0
        curAngle == AngleOf(list, i) + a
    IN  SetVel(SetAngle(list, i, curAngle), i, Heading(MISSILE_SPEED, curAngle))

\* The wrap that keeps only the horizontal axis.
WrapIntoWindow_XOnly(list, i, ExtentX, ExtentY) ==
    SetPos(list, i,
      << AEWrap(PosOf(list, i)[1], Q(WinMinX - ExtentX), Q(WinMaxX + ExtentX)),
         PosOf(list, i)[2] >>)

\* The two AEWrap assignments of the ship, asteroid and missile branches:
\* each coordinate of slot i is wrapped into the window widened on both
\* sides by the constant given for that axis.
WrapIntoWindow(list, i, ExtentX, ExtentY) ==
    SetPos(list, i,
      << AEWrap(PosOf(list, i)[1], Q(WinMinX - ExtentX), Q(WinMaxX + ExtentX)),
         AEWrap(PosOf(list, i)[2], Q(WinMinY - ExtentY), Q(WinMaxY + ExtentY)) >>)

\* The bullet test that looks at the horizontal axis only.
BulletOutside_XOnly(list, i) ==
    \/ PosOf(list, i)[1] > Q(WinMaxX)
    \/ PosOf(list, i)[1] < Q(WinMinX)

\* The condition of the bullet branch: the position is beyond an edge of the
\* window.
BulletOutside(list, i) ==
    \/ PosOf(list, i)[1] > Q(WinMaxX)
    \/ PosOf(list, i)[1] < Q(WinMinX)
    \/ PosOf(list, i)[2] > Q(WinMaxY)
    \/ PosOf(list, i)[2] < Q(WinMinY)

\* The body of the behaviour loop of Update for slot i.  p is [g, steer,
\* acq]: steer collects, for every steering step taken, <<missile slot,
\* target slot, type of the instance in the target slot, whether the missile
\* was exactly on its target, mFlag of the target slot when its components
\* are read>>; acq collects, for every active missile, <<missile slot,
\* whether its pointer was usable before the acquisition scan, the pointer
\* after it>>.
Behave(p, i, dt) ==
    LET list == p.g.list
        ty == TypeOf(list, i)
    IN  IF list[i].mFlag # FLAG_ACTIVE THEN p
        ELSE IF ty = OBJECT_TYPE_SHIP
        THEN [p EXCEPT !.g.list = WrapIntoWindow(list, i, SHIP_SIZE, SHIP_SIZE)]
        ELSE IF ty = OBJECT_TYPE_BULLET
        THEN IF BulletOutside(list, i)
             THEN [p EXCEPT !.g = GameObjectInstanceDestroy(p.g, i)]
             ELSE p
        ELSE IF ty = OBJECT_TYPE_ASTEROID
        THEN [p EXCEPT !.g.list =
                WrapIntoWindow(list, i, ASTEROID_SIZE, ASTEROID_SIZE)]
        ELSE IF ty = OBJECT_TYPE_HOMING_MISSILE
        THEN LET l1 == WrapIntoWindow(list, i, MISSILE_WIDTH, MISSILE_HEIGHT)
                 l2 == Acquire(l1, i)
             IN  IF TargetUsable(l2, i)
                 THEN [g |-> [p.g EXCEPT !.list = Steer(l2, i, dt)],
                       steer |-> p.steer \cup
                         {<<i, l2[i].mpComponent_Target[1].mpTarget[1],
                            TypeOf(l2, l2[i].mpComponent_Target[1].mpTarget[1]),
                            PosOf(l2, l2[i].mpComponent_Target[1].mpTarget[1])
                              = PosOf(l2, i),
                            l2[l2[i].mpComponent_Target[1].mpTarget[1]].mFlag>>},
                       acq |-> p.acq \cup
                         {<<i, TargetUsable(l1, i),
                            l2[i].mpComponent_Target[1].mpTarget>>}]
                 ELSE [p EXCEPT
                         !.g.list = l2,
                         !.acq = p.acq \cup
                           {<<i, TargetUsable(l1, i),
                              l2[i].mpComponent_Target[1].mpTarget>>}]
        ELSE p

\* The behaviour loop of Update from slot i on.
RECURSIVE BehaviourLoop(_, _, _)
BehaviourLoop(p, i, dt) ==
    IF i >= GAME_OBJ_INST_NUM_MAX THEN p
    ELSE BehaviourLoop(Behave(p, i, dt), i + 1, dt)

\* StaticRectToStaticRect of Math2D: the rectangles, given by centre, width
\* and height, overlap (touching edges count).
StaticRectToStaticRect(pRect0, Width0, Height0, pRect1, Width1, Height1) ==
    /\ 2 * Abs(pRect0[1] - pRect1[1]) <= Q(Width0 + Width1)
    /\ 2 * Abs(pRect0[2] - pRect1[2]) <= Q(Height0 + Height1)

\* StaticPointToStaticRect of Math2D: the point lies in the rectangle (its
\* edges included).
StaticPointToStaticRect(pPos, pRect, Width, Height) ==
    /\ 2 * Abs(pPos[1] - pRect[1]) <= Q(Width)
    /\ 2 * Abs(pPos[2] - pRect[2]) <= Q(Height)

\* The test the collision pass makes of asteroid i against instance j, by the
\* type of j: rectangle against rectangle, or the bullet's point against the
\* asteroid's rectangle.
Overlap(list, i, j) ==
    LET ti == list[i].mpComponent_Transform[1]
        tj == list[j].mpComponent_Transform[1]
    IN  IF TypeOf(list, j) = OBJECT_TYPE_BULLET
        THEN StaticPointToStaticRect(tj.mPosition, ti.mPosition, ti.mScaleX, ti.mScaleY)
        ELSE StaticRectToStaticRect(ti.mPosition, ti.mScaleX, ti.mScaleY,
                                    tj.mPosition, tj.mScaleX, tj.mScaleY)

\* The ship branch that resets the position and forgets the velocity.
HitShip_KeepsVelocity(g, i) ==
    LET g1 == GameObjectInstanceDestroy(g, i)
    IN  [g1 EXCEPT !.list = SetPos(g1.list, g1.ship[1], g1.startPos)]

\* The ship branch that destroys the ship as well (the call the source keeps
\* commented out).
HitShip_DestroysShip(g, i) ==
    GameObjectInstanceDestroy(GameObjectInstanceDestroy(g, i), g.ship[1])

\* What the pass does once asteroid i is found to overlap the ship: the
\* asteroid is destroyed and the ship (through sgpShip) gets the baseline.
HitShip(g, i) ==
    LET g1 == GameObjectInstanceDestroy(g, i)
    IN  [g1 EXCEPT !.list =
           SetVel(SetPos(g1.list, g1.ship[1], g1.startPos), g1.ship[1], g1.startPhys)]

\* The pair branch that destroys the asteroid and forgets the partner.
HitPair_KeepsPartner(g, i, j) == GameObjectInstanceDestroy(g, i)

\* The pair branch that destroys the partner and forgets the asteroid.
HitPair_KeepsAsteroid(g, i, j) == GameObjectInstanceDestroy(g, j)

\* What the pass does once asteroid i is found to overlap bullet or missile j.
HitPair(g, i, j) == GameObjectInstanceDestroy(GameObjectInstanceDestroy(g, i), j)

\* The inner loop without the test that asteroid i is still active: what it
\* reads of a destroyed asteroid is taken not to overlap.
RECURSIVE CollideInner_NoBreak(_, _, _)
CollideInner_NoBreak(c, i, j) ==
    IF j >= GAME_OBJ_INST_NUM_MAX THEN c
    ELSE IF c.g.list[j].mFlag # FLAG_ACTIVE THEN CollideInner_NoBreak(c, i, j + 1)
    ELSE LET ty == TypeOf(c.g.list, j)
             live == c.g.list[i].mFlag = FLAG_ACTIVE
             hit == live /\ ty # OBJECT_TYPE_ASTEROID /\ Overlap(c.g.list, i, j)
             rd == c.reads \cup {<<j, c.g.list[j].mFlag>>}
                           \cup (IF ty = OBJECT_TYPE_ASTEROID THEN {}
                                 ELSE {<<i, c.g.list[i].mFlag>>})
             c1 == IF ~hit THEN [c EXCEPT !.reads = rd]
                   ELSE IF ty = OBJECT_TYPE_SHIP
                   THEN [g |-> HitShip(c.g, i),
                         hits |-> Append(c.hits, <<i, j, ty>>), reads |-> rd]
                   ELSE [g |-> HitPair(c.g, i, j),
                         hits |-> Append(c.hits, <<i, j, ty>>), reads |-> rd]
         IN  CollideInner_NoBreak(c1, i, j + 1)

\* The inner loop that puts off the destroy of asteroid i to the end of its
\* scan: the ship is reset and each overlapping bullet or missile destroyed
\* when found, the asteroid once the scan is over.
RECURSIVE CollideInner_DestroysLast(_, _, _)
CollideInner_DestroysLast(c, i, j) ==
    IF j >= GAME_OBJ_INST_NUM_MAX
    THEN IF \E k \in 1..Len(c.hits) : c.hits[k][1] = i
         THEN [c EXCEPT !.g = GameObjectInstanceDestroy(c.g, i)]
         ELSE c
    ELSE IF c.g.list[i].mFlag # FLAG_ACTIVE THEN c
    ELSE IF c.g.list[j].mFlag # FLAG_ACTIVE
    THEN CollideInner_DestroysLast(c, i, j + 1)
    ELSE LET ty == TypeOf(c.g.list, j)
             hit == ty # OBJECT_TYPE_ASTEROID /\ Overlap(c.g.list, i, j)
             rd == c.reads \cup {<<j, c.g.list[j].mFlag>>}
                           \cup (IF ty = OBJECT_TYPE_ASTEROID THEN {}
                                 ELSE {<<i, c.g.list[i].mFlag>>})
             c1 == IF ~hit THEN [c EXCEPT !.reads = rd]
                   ELSE IF ty = OBJECT_TYPE_SHIP
                   THEN [g |-> [c.g EXCEPT !.list =
                                  SetVel(SetPos(c.g.list, c.g.ship[1], c.g.startPos),
                                         c.g.ship[1], c.g.startPhys)],
                         hits |-> Append(c.hits, <<i, j, ty>>), reads |-> rd]
                   ELSE [g |-> GameObjectInstanceDestroy(c.g, j),
                         hits |-> Append(c.hits, <<i, j, ty>>), reads |-> rd]
         IN  CollideInner_DestroysLast(c1, i, j + 1)

\* The inner loop whose last branch takes every partner that is neither the
\* ship nor a bullet, an asteroid included, for a missile.
RECURSIVE CollideInner_AnyPartner(_, _, _)
CollideInner_AnyPartner(c, i, j) ==
    IF j >= GAME_OBJ_INST_NUM_MAX THEN c
    ELSE IF c.g.list[i].mFlag # FLAG_ACTIVE THEN c
    ELSE IF c.g.list[j].mFlag # FLAG_ACTIVE
    THEN CollideInner_AnyPartner(c, i, j + 1)
    ELSE LET ty == TypeOf(c.g.list, j)
             hit == Overlap(c.g.list, i, j)
             rd == c.reads \cup {<<j, c.g.list[j].mFlag>>, <<i, c.g.list[i].mFlag>>}
             c1 == IF ~hit THEN [c EXCEPT !.reads = rd]
                   ELSE IF ty = OBJECT_TYPE_SHIP
                   THEN [g |-> HitShip(c.g, i),
                         hits |-> Append(c.hits, <<i, j, ty>>), reads |-> rd]
                   ELSE [g |-> HitPair(c.g, i, j),
                         hits |-> Append(c.hits, <<i, j, ty>>), reads |-> rd]
         IN  CollideInner_AnyPartner(c1, i, j + 1)

\* The inner loop of the collision pass for asteroid i, from j on.  c is
\* [g, hits, reads]: hits is the sequence of the overlaps found, in the order
\* found, each as <<asteroid slot, partner slot, partner type>>; reads
\* collects <<slot, mFlag of the slot>> for every slot whose components the
\* pass reads, as the flag is when they are read.
RECURSIVE CollideInner(_, _, _)
CollideInner(c, i, j) ==
    IF j >= GAME_OBJ_INST_NUM_MAX THEN c
    ELSE IF c.g.list[i].mFlag # FLAG_ACTIVE THEN c
    ELSE IF c.g.list[j].mFlag # FLAG_ACTIVE THEN CollideInner(c, i, j + 1)
    ELSE LET ty == TypeOf(c.g.list, j)
             hit == ty # OBJECT_TYPE_ASTEROID /\ Overlap(c.g.list, i, j)
             rd == c.reads \cup {<<j, c.g.list[j].mFlag>>}
                           \cup (IF ty = OBJECT_TYPE_ASTEROID THEN {}
                                 ELSE {<<i, c.g.list[i].mFlag>>})
             c1 == IF ~hit THEN [c EXCEPT !.reads = rd]
                   ELSE IF ty = OBJECT_TYPE_SHIP
                   THEN [g |-> HitShip(c.g, i),
                         hits |-> Append(c.hits, <<i, j, ty>>), reads |-> rd]
                   ELSE [g |-> HitPair(c.g, i, j),
                         hits |-> Append(c.hits, <<i, j, ty>>), reads |-> rd]
         IN  CollideInner(c1, i, j + 1)

\* The outer loop of the collision pass, from i on.
RECURSIVE CollideOuter(_, _)
CollideOuter(c, i) ==
    IF i >= GAME_OBJ_INST_NUM_MAX THEN c
    ELSE IF c.g.list[i].mFlag = FLAG_ACTIVE
            /\ TypeOf(c.g.list, i) = OBJECT_TYPE_ASTEROID
    THEN CollideOuter(
           CollideInner([c EXCEPT !.reads = c.reads \cup {<<i, FLAG_ACTIVE>>}],
                        i, 0),
           i + 1)
    ELSE CollideOuter(c, i + 1)

\* translate * rotate * scale as a 2x3 matrix, the rotation entries times 1000.
ComposeTransform(t) ==
    << << t.mScaleX * Cos1000(t.mAngle), -(t.mScaleY * Sin1000(t.mAngle)),
          t.mPosition[1] >>,
       << t.mScaleX * Sin1000(t.mAngle), t.mScaleY * Cos1000(t.mAngle),
          t.mPosition[2] >> >>

\* The matrix loop of Update.
ComputeMatrices(list) ==
    [i \in Slots |->
        IF list[i].mFlag = FLAG_ACTIVE
        THEN [list[i] EXCEPT !.mpComponent_Transform[1].mTransform =
                ComposeTransform(list[i].mpComponent_Transform[1])]
        ELSE list[i]]

\* The loop of GameStateAsteroidsDraw that visits the slots top down.
RECURSIVE DrawLoop_Descending(_, _)
DrawLoop_Descending(list, i) ==
    IF i >= GAME_OBJ_INST_NUM_MAX THEN << >>
    ELSE IF list[i].mFlag = 0 THEN DrawLoop_Descending(list, i + 1)
    ELSE DrawLoop_Descending(list, i + 1)
           \o << <<i, list[i].mpComponent_Transform[1].mTransform,
                   list[i].mpComponent_Sprite[1].mpShape>> >>

\* The loop of GameStateAsteroidsDraw from slot i on: the submissions made,
\* in the order made, each as <<slot, the matrix given to AEGfxSetTransform,
\* the shape whose mesh is given to AEGfxMeshDraw>>.
RECURSIVE DrawLoop(_, _)
DrawLoop(list, i) ==
    IF i >= GAME_OBJ_INST_NUM_MAX THEN << >>
    ELSE IF list[i].mFlag = 0 THEN DrawLoop(list, i + 1)
    ELSE << <<i, list[i].mpComponent_Transform[1].mTransform,
              list[i].mpComponent_Sprite[1].mpShape>> >>
           \o DrawLoop(list, i + 1)

\* What Update and Draw record of their own run.
NoTrace ==
    [spawned |-> {}, integrated |-> [i \in Slots |-> ZeroInstance],
     steer |-> {}, acq |-> {}, collStart |-> [i \in Slots |-> ZeroInstance],
     hits |-> << >>, reads |-> {}, drawn |-> << >>]

\* The end of Update: the matrix loop, on the globals c.g the collision pass
\* left; b is what the behaviour loop left, integrated the array after the
\* integration loop, spawned the slots created.
UpdateMatrices(c, b, integrated, spawned) ==
    [g |-> [c.g EXCEPT !.list = ComputeMatrices(c.g.list)],
     fault |-> "none",
     trace |-> [spawned |-> spawned, integrated |-> integrated,
                steer |-> b.steer, acq |-> b.acq,
                collStart |-> b.g.list, hits |-> c.hits, reads |-> c.reads,
                drawn |-> << >>]]

\* The end of an Update whose matrix loop has run already: what the
\* collision pass left is returned as it is.
UpdateMatrices_Skipped(c, b, integrated, spawned) ==
    [g |-> c.g,
     fault |-> "none",
     trace |-> [spawned |-> spawned, integrated |-> integrated,
                steer |-> b.steer, acq |-> b.acq,
                collStart |-> b.g.list, hits |-> c.hits, reads |-> c.reads,
                drawn |-> << >>]]

\* Update with the matrix loop before the collision pass.
UpdateCollide_MatricesFirst(b, integrated, spawned) ==
    UpdateMatrices_Skipped(
      CollideOuter([g |-> [b.g EXCEPT !.list = ComputeMatrices(b.g.list)],
                    hits |-> << >>, reads |-> {}], 0),
      b, integrated, spawned)

\* Update from the collision pass on.
UpdateCollide(b, integrated, spawned) ==
    UpdateMatrices(CollideOuter([g |-> b.g, hits |-> << >>, reads |-> {}], 0),
                   b, integrated, spawned)

\* Update from the behaviour loop on, on the globals the integration loop
\* left.
UpdateBehave(moved, spawned, dt) ==
    UpdateCollide(
      BehaviourLoop([g |-> moved, steer |-> {}, acq |-> {}], 0, dt),
      moved.list, spawned)

\* Update after the spawn requests u = [g, fault, spawned].  A null pointer
\* returned by Create is dereferenced at once, and the call does not get
\* further; otherwise integration, the behaviour loop and the rest.
UpdateSimulate(u, in) ==
    IF u.fault # "none"
    THEN [g |-> u.g, fault |-> u.fault,
          trace |-> [NoTrace EXCEPT !.spawned = u.spawned]]
    ELSE UpdateBehave([u.g EXCEPT !.list = Integrate(u.g.list, in.dt)],
                      u.spawned, in.dt)

\* GameStateAsteroidsUpdate on globals g with input in: [g, fault, trace].
UpdateGlobals(g, in) ==
    UpdateSimulate(SpawnRequests(ShipControl(g, in), in), in)

\* ----------------------------------------------------------------- inputs

\* A frame as Update sees it: the held keys (AEInputCheckCurr), the freshly
\* triggered keys (AEInputCheckTriggered) and the frame time in ticks.
Frame(curr, trig, dt) == [curr |-> curr, trig |-> trig, dt |-> dt]

\* The frames a run is made of: a frame of two seconds with no key;
\* a frame of one second with forward thrust or with backward thrust; a frame of a quarter second that
\* turns the ship a quarter turn left or right, fires a bullet (SPACE freshly
\* pressed) or keeps SPACE held; a frame of either length that launches a
\* missile.
Inputs ==
    {Frame({}, {}, 8),
     Frame({"UP"}, {}, 4), Frame({"DOWN"}, {}, 4),
     Frame({"LEFT"}, {}, 1), Frame({"RIGHT"}, {}, 1),
     Frame({"SPACE"}, {"SPACE"}, 1), Frame({"SPACE"}, {}, 1),
     Frame({"M"}, {"M"}, 1), Frame({"M"}, {"M"}, 4)}

\* AEInputCheckTriggered against AEInputCheckCurr: a key is triggered in a
\* frame exactly when it is held in that frame and was not in the one before.
EdgeTriggered(prev, in) ==
    \A k \in {"SPACE", "M"} :
        k \in in.trig <=> (k \in in.curr /\ k \notin prev.curr)

NoInput == [curr |-> {}, trig |-> {}, dt |-> 0]

\* ---------------------------------------------------------------- actions

SetGlobals(g) ==
    /\ sgGameObjectInstanceList' = g.list
    /\ sgGameObjectInstanceNum' = g.num
    /\ sgpShip' = g.ship
    /\ sgpShipStartPos' = g.startPos
    /\ sgpShipStartPhys' = g.startPhys

\* The program after GameStateAsteroidsLoad: static storage is zero.
Init ==
    /\ sgGameObjectInstanceList = [i \in Slots |-> ZeroInstance]
    /\ sgGameObjectInstanceNum = 0
    /\ sgpShip = NULL
    /\ sgpShipStartPos = <<0, 0>>
    /\ sgpShipStartPhys = <<0, 0>>
    /\ sgScore = 0
    /\ sgShipLives = 0
    /\ phase = "loaded"
    /\ fault = "none"
    /\ frame = 0
    /\ input = NoInput
    /\ trace = NoTrace

\* GameStateAsteroidsInit, on entering the state or on restarting it.
GameStateAsteroidsInit ==
    /\ fault = "none"
    /\ phase \in {"loaded", "freed"}
    /\ SetGlobals(InitGlobals(Globals))
    /\ sgScore' = 0
    /\ sgShipLives' = SHIP_INITIAL_NUM
    /\ phase' = "running"
    /\ input' = NoInput
    /\ trace' = NoTrace
    /\ UNCHANGED <<fault, frame>>

\* What a call of Update leaves: r = [g, fault, trace] on input in.
UpdateResult(r, in) ==
    /\ SetGlobals(r.g)
    /\ fault' = r.fault
    /\ trace' = r.trace
    /\ input' = in

\* The frame loop calls Update after Init or after the Draw of the frame
\* before (the ship is always drawn, so a frame that was drawn has
\* submissions).
FrameDone == input = NoInput \/ trace.drawn # << >>

\* GameStateAsteroidsUpdate, once per frame.
GameStateAsteroidsUpdate ==
    /\ fault = "none"
    /\ phase = "running"
    /\ FrameDone
    /\ frame < MaxFrames
    /\ \E in \in Inputs :
         /\ EdgeTriggered(input, in)
         /\ UpdateResult(UpdateGlobals(Globals, in), in)
    /\ frame' = frame + 1
    /\ UNCHANGED <<sgScore, sgShipLives, phase>>

\* GameStateAsteroidsDraw, once per frame after Update.
GameStateAsteroidsDraw ==
    /\ fault = "none"
    /\ phase = "running"
    /\ input # NoInput
    /\ trace.drawn = << >>
    /\ trace' = [trace EXCEPT !.drawn = DrawLoop(sgGameObjectInstanceList, 0)]
    /\ UNCHANGED <<sgGameObjectInstanceList, sgGameObjectInstanceNum, sgpShip,
                   sgpShipStartPos, sgpShipStartPhys, sgScore, sgShipLives,
                   phase, fault, frame, input>>

\* GameStateAsteroidsFree, on leaving or restarting the state.
GameStateAsteroidsFree ==
    /\ fault = "none"
    /\ phase = "running"
    /\ SetGlobals(FreeLoop(Globals, 0))
    /\ phase' = "freed"
    /\ input' = NoInput
    /\ trace' = NoTrace
    /\ UNCHANGED <<sgScore, sgShipLives, fault, frame>>

Next ==
    \/ GameStateAsteroidsInit
    \/ GameStateAsteroidsUpdate
    \/ GameStateAsteroidsDraw
    \/ GameStateAsteroidsFree

Spec == Init /\ [][Next]_vars

\* ------------------------------------------------------------ properties

ActiveSlots(list) == {i \in Slots : list[i].mFlag = FLAG_ACTIVE}

ActiveOfType(list, ty) == {i \in ActiveSlots(list) : TypeOf(list, i) = ty}

\* The overlaps the last collision pass found: the sequence as a set.
Hits == {trace.hits[k] : k \in 1 .. Len(trace.hits)}

\* An Update returned normally in the step to this state.
Updated == phase = "running" /\ frame > 0 /\ fault = "none" /\ input # NoInput

\* No steering step of the last Update found the missile exactly on its
\* target, where the C code would compute 0/0.
SteerDefined == \A s \in trace.steer : ~s[4]

\* C1: in every state the hooks leave behind, an active slot has its
\* Transform, Sprite and Physics components, and an inactive slot has none of
\* its four component pointers set.
C1_ComponentsFollowFlag ==
    \A i \in Slots :
        LET e == sgGameObjectInstanceList[i]
        IN  /\ e.mFlag \in {0, FLAG_ACTIVE}
            /\ e.mFlag = FLAG_ACTIVE =>
                 /\ e.mpComponent_Transform # NULL
                 /\ e.mpComponent_Sprite # NULL
                 /\ e.mpComponent_Physics # NULL
            /\ e.mFlag = 0 =>
                 /\ e.mpComponent_Transform = NULL
                 /\ e.mpComponent_Sprite = NULL
                 /\ e.mpComponent_Physics = NULL
                 /\ e.mpComponent_Target = NULL

\* An Update has returned after destroying a missile (the one archetype with
\* all four components) in its collision pass.
C1_Witness ==
    /\ Updated
    /\ \E h \in Hits :
         /\ h[3] = OBJECT_TYPE_HOMING_MISSILE
         /\ sgGameObjectInstanceList[h[2]].mFlag = 0
         /\ sgGameObjectInstanceList[h[1]].mFlag = 0

\* C2: an Update that sees SPACE or 'M' triggered while every slot is active
\* returns normally and creates nothing.
C2_SpawnOnFullStoreIsDropped ==
    [][(/\ frame' = frame + 1
        /\ FreeSlots(sgGameObjectInstanceList) = {}
        /\ input'.trig # {})
       => (fault' = "none" /\ trace'.spawned = {})]_vars

\* C3: on a store with every slot active, Create returns null for every
\* object type and leaves the list, the counter and the baseline as they are.
C3_CreateOnFullStore ==
    FreeSlots(sgGameObjectInstanceList) = {} =>
        \A ty \in ObjectTypes :
            LET r == GameObjectInstanceCreate(Globals, ty)
            IN  r.ret = NULL /\ r.g = Globals

\* Create has just been called on a full store (by the Update that faulted
\* on its result) and the store is as it was.
C3_Witness ==
    /\ fault = "null_deref"
    /\ FreeSlots(sgGameObjectInstanceList) = {}
    /\ sgGameObjectInstanceNum = GAME_OBJ_INST_NUM_MAX

\* C4: when Free has returned, no slot is active.
C4_FreeDestroysAll ==
    phase = "freed" => ActiveSlots(sgGameObjectInstanceList) = {}

\* C5: every steering step of the last Update used a target slot that held an
\* asteroid.
C5_SteeringTargetIsAsteroid ==
    \A s \in trace.steer : s[3] = OBJECT_TYPE_ASTEROID

\* C6: destroying an inactive slot changes nothing, and destroying a slot
\* twice gives what destroying it once gives.
C6_DestroyIdempotent ==
    \A i \in Slots :
        LET once == GameObjectInstanceDestroy(Globals, i)
        IN  /\ sgGameObjectInstanceList[i].mFlag = 0 => once = Globals
            /\ GameObjectInstanceDestroy(once, i) = once

\* The last Update destroyed a slot that is still inactive, and active slots
\* remain.
C6_Witness ==
    /\ Updated
    /\ \E h \in Hits : sgGameObjectInstanceList[h[1]].mFlag = 0
    /\ sgGameObjectInstanceNum > 1

\* C7: when the collision pass of the last Update found an asteroid to
\* overlap the ship, or an active asteroid overlapped the ship at the start
\* of the pass, the ship is at the baseline position with the baseline
\* velocity; the asteroid of every overlap found is inactive.
C7_ShipRespawn ==
    LET cs == trace.collStart
        s == sgpShip[1]
    IN  Updated =>
          /\ \A h \in Hits : h[3] = OBJECT_TYPE_SHIP =>
                /\ PosOf(sgGameObjectInstanceList, s) = sgpShipStartPos
                /\ VelOf(sgGameObjectInstanceList, s) = sgpShipStartPhys
                /\ sgGameObjectInstanceList[h[1]].mFlag = 0
          /\ \A a \in ActiveOfType(cs, OBJECT_TYPE_ASTEROID) :
                Overlap(cs, a, s) =>
                  /\ PosOf(sgGameObjectInstanceList, s) = sgpShipStartPos
                  /\ VelOf(sgGameObjectInstanceList, s) = sgpShipStartPhys

\* The last Update found an asteroid on the ship while the ship was moving
\* away from the baseline position.
C7_Witness ==
    /\ Updated
    /\ \E h \in Hits :
         /\ h[3] = OBJECT_TYPE_SHIP
         /\ PosOf(trace.collStart, h[2]) # sgpShipStartPos
         /\ VelOf(trace.collStart, h[2]) # sgpShipStartPhys

\* C8: between Init and Free there is exactly one active ship, sgpShip points
\* to it, and the slots a collision pass deactivates are the asteroids of the
\* overlaps found and their bullet or missile partners, never the ship.
C8_ShipNeverDestroyed ==
    phase = "running" =>
      /\ sgpShip # NULL
      /\ ActiveOfType(sgGameObjectInstanceList, OBJECT_TYPE_SHIP) = {sgpShip[1]}
      /\ \A h \in Hits : h[3] = OBJECT_TYPE_SHIP =>
            sgGameObjectInstanceList[h[2]].mFlag = FLAG_ACTIVE
      /\ Updated =>
           ActiveSlots(trace.collStart) \ ActiveSlots(sgGameObjectInstanceList)
             = {h[1] : h \in Hits}
               \cup {h[2] : h \in {k \in Hits : k[3] # OBJECT_TYPE_SHIP}}

\* The last Update found an asteroid on the ship.
C8_Witness ==
    /\ Updated
    /\ \E h \in Hits : h[3] = OBJECT_TYPE_SHIP /\ h[2] = sgpShip[1]

\* The asteroid / bullet pairs, both active at the start of the last collision
\* pass, with the bullet's position inside the asteroid's rectangle.
BulletPairs ==
    {p \in ActiveOfType(trace.collStart, OBJECT_TYPE_ASTEROID)
           \X ActiveOfType(trace.collStart, OBJECT_TYPE_BULLET) :
        LET a == trace.collStart[p[1]].mpComponent_Transform[1]
        IN  StaticPointToStaticRect(PosOf(trace.collStart, p[2]),
                                    a.mPosition, a.mScaleX, a.mScaleY)}

\* The asteroid / missile pairs, both active at the start of the last
\* collision pass, whose rectangles overlap.
MissilePairs ==
    {p \in ActiveOfType(trace.collStart, OBJECT_TYPE_ASTEROID)
           \X ActiveOfType(trace.collStart, OBJECT_TYPE_HOMING_MISSILE) :
        LET a == trace.collStart[p[1]].mpComponent_Transform[1]
            m == trace.collStart[p[2]].mpComponent_Transform[1]
        IN  StaticRectToStaticRect(a.mPosition, a.mScaleX, a.mScaleY,
                                   m.mPosition, m.mScaleX, m.mScaleY)}

BothInactive(p) ==
    /\ sgGameObjectInstanceList[p[1]].mFlag = 0
    /\ sgGameObjectInstanceList[p[2]].mFlag = 0

\* The asteroid of pair p went with another partner, or the partner of p went
\* with another asteroid.
TakenElsewhere(p) ==
    \E h \in Hits : (h[1] = p[1] /\ h[2] # p[2]) \/ (h[1] # p[1] /\ h[2] = p[2])

\* C9 as stated: every asteroid and bullet that overlap when the pass starts
\* are both inactive when it ends.
C9_EveryBulletPairDestroyed ==
    Updated => \A p \in BulletPairs : BothInactive(p)

\* C9 amended: of an asteroid and a bullet that overlap when the pass starts,
\* at least one is inactive when it ends, and both are unless the asteroid was
\* destroyed with another partner or the bullet with another asteroid.
C9_BulletPairDestroyedUnlessTaken ==
    Updated =>
      \A p \in BulletPairs :
        /\ sgGameObjectInstanceList[p[1]].mFlag = 0
             \/ sgGameObjectInstanceList[p[2]].mFlag = 0
        /\ ~TakenElsewhere(p) =>
             BothInactive(p) /\ <<p[1], p[2], OBJECT_TYPE_BULLET>> \in Hits

\* The last pass found a bullet in an asteroid and destroyed both.
C9_Witness ==
    /\ Updated
    /\ \E p \in BulletPairs :
         ~TakenElsewhere(p) /\ BothInactive(p)

\* C10 as stated: every asteroid and missile that overlap when the pass
\* starts are both inactive when it ends.
C10_EveryMissilePairDestroyed ==
    Updated => \A p \in MissilePairs : BothInactive(p)

\* C10 amended: of an asteroid and a missile that overlap when the pass
\* starts, at least one is inactive when it ends, and both are unless the
\* asteroid was destroyed with another partner or the missile with another
\* asteroid.
C10_MissilePairDestroyedUnlessTaken ==
    Updated =>
      \A p \in MissilePairs :
        /\ sgGameObjectInstanceList[p[1]].mFlag = 0
             \/ sgGameObjectInstanceList[p[2]].mFlag = 0
        /\ ~TakenElsewhere(p) =>
             BothInactive(p) /\ <<p[1], p[2], OBJECT_TYPE_HOMING_MISSILE>> \in Hits

\* The last pass found a missile on an asteroid and destroyed both.
C10_Witness ==
    /\ Updated
    /\ \E p \in MissilePairs :
         ~TakenElsewhere(p) /\ BothInactive(p)

\* An Update was called in the step to this state or the one before its
\* Draw: it returned, or it stopped at a null pointer.
UpdateCalled == phase = "running" /\ input # NoInput

\* The bullets the last Update created.  After a normal return their type is
\* read in the array as the integration loop left it, after a fault in the
\* array as the fault left it.
CreatedBullets ==
    IF fault = "none"
    THEN {i \in trace.spawned : TypeOf(trace.integrated, i) = OBJECT_TYPE_BULLET}
    ELSE {i \in trace.spawned :
            TypeOf(sgGameObjectInstanceList, i) = OBJECT_TYPE_BULLET}

\* C11: an Update creates a bullet only in a frame in which SPACE is freshly
\* triggered, and at most one; an Update that returns from such a frame has
\* created exactly one.  A frame in which SPACE is merely held (the second
\* frame of a hold) therefore creates none.
C11_BulletOnlyOnTrigger ==
    UpdateCalled =>
        /\ Cardinality(CreatedBullets) <= 1
        /\ CreatedBullets # {} => "SPACE" \in input.trig
        /\ (fault = "none" /\ "SPACE" \in input.trig) =>
             Cardinality(CreatedBullets) = 1
        /\ ("SPACE" \in input.curr /\ "SPACE" \notin input.trig) =>
             CreatedBullets = {}

\* SPACE was triggered in the first frame after Init and is merely held in
\* the second: one bullet exists.
C11_Witness ==
    /\ Updated
    /\ frame = 2
    /\ "SPACE" \in input.curr
    /\ "SPACE" \notin input.trig
    /\ Cardinality(ActiveOfType(sgGameObjectInstanceList, OBJECT_TYPE_BULLET)) = 1

\* The asteroids that are active while the behaviour loop of the last Update
\* runs (the loop destroys bullets only).
AsteroidsAtBehaviour == ActiveOfType(trace.collStart, OBJECT_TYPE_ASTEROID)

\* C12: a missile whose target pointer is null or points to a slot that is
\* not active gets, in the behaviour loop, the active asteroid of lowest
\* index as its target, whenever there is an active asteroid.
C12_AcquiresLowestAsteroid ==
    \A e \in trace.acq :
        (~e[2] /\ AsteroidsAtBehaviour # {}) =>
            /\ e[3] # NULL
            /\ e[3][1] \in AsteroidsAtBehaviour
            /\ \A k \in AsteroidsAtBehaviour : e[3][1] <= k

\* A missile without a usable target has acquired one while several
\* asteroids were active, the one of slot 1 not among them.
C12_Witness ==
    /\ Updated
    /\ \E e \in trace.acq :
         /\ ~e[2]
         /\ e[3] # NULL
         /\ Cardinality(AsteroidsAtBehaviour) >= 2
         /\ 1 \notin AsteroidsAtBehaviour

\* Init has just returned.
InitReturned == phase = "running" /\ input = NoInput

\* C13: when Init has returned, whatever the array held before, exactly the
\* slots 0 to 3 are active: the ship in slot 0 at the origin with zero
\* velocity, asteroids in slots 1 to 3; the counter is 4, the score 0 and the
\* lives SHIP_INITIAL_NUM.
C13_InitState ==
    InitReturned =>
        /\ ActiveSlots(sgGameObjectInstanceList) = {0, 1, 2, 3}
        /\ TypeOf(sgGameObjectInstanceList, 0) = OBJECT_TYPE_SHIP
        /\ sgpShip = <<0>>
        /\ PosOf(sgGameObjectInstanceList, 0) = <<0, 0>>
        /\ VelOf(sgGameObjectInstanceList, 0) = <<0, 0>>
        /\ \A i \in {1, 2, 3} :
             TypeOf(sgGameObjectInstanceList, i) = OBJECT_TYPE_ASTEROID
        /\ sgGameObjectInstanceNum = 4
        /\ sgScore = 0
        /\ sgShipLives = 3

\* Init has returned on a restart, after frames were played.
C13_Witness == InitReturned /\ frame >= 2

\* Position p lies in the window, its edges included.
InWindow(p) ==
    /\ p[1] >= -Q(WinMaxX) /\ p[1] <= Q(WinMaxX)
    /\ p[2] >= -Q(WinMaxY) /\ p[2] <= Q(WinMaxY)

\* C14: after the behaviour loop of an Update, and when the Update returns,
\* every active bullet lies in the window on both axes: a bullet that the
\* integration loop left beyond an edge is inactive after the behaviour loop.
C14_BulletsInsideWindow ==
    Updated =>
        /\ \A i \in ActiveOfType(trace.integrated, OBJECT_TYPE_BULLET) :
             ~InWindow(PosOf(trace.integrated, i)) => trace.collStart[i].mFlag = 0
        /\ \A i \in ActiveOfType(trace.collStart, OBJECT_TYPE_BULLET) :
             InWindow(PosOf(trace.collStart, i))
        /\ \A i \in ActiveOfType(sgGameObjectInstanceList, OBJECT_TYPE_BULLET) :
             InWindow(PosOf(sgGameObjectInstanceList, i))

\* A bullet has left the window through its upper or lower edge only and was
\* destroyed in the same frame.
C14_Witness ==
    /\ Updated
    /\ \E i \in ActiveOfType(trace.integrated, OBJECT_TYPE_BULLET) :
         /\ Abs(PosOf(trace.integrated, i)[2]) > Q(WinMaxY)
         /\ Abs(PosOf(trace.integrated, i)[1]) <= Q(WinMaxX)
         /\ trace.collStart[i].mFlag = 0

\* Where a coordinate x is put by a wrap into lo .. hi: moved by the length
\* of the interval when it is beyond an end, so that what passes hi by d
\* reappears at lo + d, and left alone otherwise.
Reappears(x, lo, hi) ==
    IF x < lo THEN x + (hi - lo)
    ELSE IF x > hi THEN x - (hi - lo)
    ELSE x

\* The instances the behaviour loop of the last Update wraps: the active
\* ship, asteroids and missiles, as the integration loop left them.
Wrapping ==
    {i \in ActiveSlots(trace.integrated) :
        TypeOf(trace.integrated, i) # OBJECT_TYPE_BULLET}

\* The behaviour loop has put instance i where a wrap into the window widened
\* by mx and my (in grid units) on the two axes puts it.
WrappedBy(i, mx, my) ==
    PosOf(trace.collStart, i) =
        << Reappears(PosOf(trace.integrated, i)[1],
                     -Q(WinMaxX) - mx, Q(WinMaxX) + mx),
           Reappears(PosOf(trace.integrated, i)[2],
                     -Q(WinMaxY) - my, Q(WinMaxY) + my) >>

TypeMargin(ty) ==
    IF ty = OBJECT_TYPE_SHIP THEN <<25, 25>>
    ELSE IF ty = OBJECT_TYPE_ASTEROID THEN <<50, 50>>
    ELSE <<10, 5>>

WrappedOne(ty) ==
    /\ Updated
    /\ \E i \in Wrapping :
         /\ TypeOf(trace.integrated, i) = ty
         /\ PosOf(trace.collStart, i) # PosOf(trace.integrated, i)

GridSpeedIs(v, Speed) ==
    /\ v[1] * v[1] + v[2] * v[2] <= Speed * Speed
    /\ (Abs(v[1]) + 1) * (Abs(v[1]) + 1) + (Abs(v[2]) + 1) * (Abs(v[2]) + 1)
         > Speed * Speed

\* Missile i took a steering step in the last Update.
Steered(i) == \E s \in trace.steer : s[1] = i

C17_DrawSubmitsActiveInOrder ==
    [][trace'.drawn # << >> =>
        /\ {trace'.drawn[k][1] : k \in 1 .. Len(trace'.drawn)}
             = ActiveSlots(sgGameObjectInstanceList)
        /\ \A k \in 1 .. Len(trace'.drawn) - 1 :
             trace'.drawn[k][1] < trace'.drawn[k + 1][1]
        /\ \A k \in 1 .. Len(trace'.drawn) :
             /\ trace'.drawn[k][2] =
                  sgGameObjectInstanceList[trace'.drawn[k][1]]
                    .mpComponent_Transform[1].mTransform
             /\ trace'.drawn[k][3] =
                  TypeOf(sgGameObjectInstanceList, trace'.drawn[k][1])
        /\ UNCHANGED <<sgGameObjectInstanceList, sgGameObjectInstanceNum,
                       sgpShip, sgpShipStartPos, sgpShipStartPhys, sgScore,
                       sgShipLives>>]_vars

\* A frame was drawn whose Update had destroyed instances in its collision
\* pass, leaving an inactive slot below an active one.
C17_Witness ==
    /\ trace.drawn # << >>
    /\ trace.hits # << >>
    /\ \E i \in Slots : \E k \in ActiveSlots(sgGameObjectInstanceList) :
         i < k /\ sgGameObjectInstanceList[i].mFlag = 0

\* C18: the collision pass of an Update reads the components of a slot only
\* while the slot is active, also after it has destroyed instances, and the
\* steering step reads its target only while the target's slot is active.
C18_NoStaleRead ==
    /\ \A r \in trace.reads : r[2] = FLAG_ACTIVE
    /\ \A s \in trace.steer : s[5] = FLAG_ACTIVE

\* The collision pass destroyed asteroid h[1] with partner h[2] while an
\* active instance that is no asteroid sat in a higher slot than the partner,
\* where the inner loop would have gone on to.
C18_Witness ==
    /\ Updated
    /\ \E h \in Hits : \E k \in ActiveSlots(sgGameObjectInstanceList) :
         /\ k > h[2]
         /\ TypeOf(sgGameObjectInstanceList, k) # OBJECT_TYPE_ASTEROID

\* C19: the angle of every active instance lies in (-PI, PI] whenever a hook
\* has returned.
C19_AngleNormalised ==
    \A i \in ActiveSlots(sgGameObjectInstanceList) :
        /\ AngleOf(sgGameObjectInstanceList, i) > -PI
        /\ AngleOf(sgGameObjectInstanceList, i) <= PI

\* C20: while the game runs, Create of any object type takes the free slot of
\* lowest index when there is one and touches no other slot; so the slot an
\* Update created an instance in has no free slot below it.
C20_CreateUsesLowestFreeSlot ==
    phase = "running" =>
        /\ \A ty \in ObjectTypes :
             LET r == GameObjectInstanceCreate(Globals, ty)
                 free == {i \in Slots : sgGameObjectInstanceList[i].mFlag = 0}
             IN  free # {} =>
                     /\ r.ret # NULL
                     /\ r.ret[1] \in free
                     /\ \A j \in free : r.ret[1] <= j
                     /\ r.g.list[r.ret[1]].mFlag = FLAG_ACTIVE
                     /\ \A k \in Slots \ {r.ret[1]} :
                          r.g.list[k] = sgGameObjectInstanceList[k]
        /\ fault = "none" =>
             \A i \in trace.spawned : \A j \in Slots :
                 j < i => trace.integrated[j].mFlag = FLAG_ACTIVE

\* An Update created an instance in a slot that a destroy had freed, below a
\* slot that was active all along.
C20_Witness ==
    /\ Updated
    /\ \E i \in trace.spawned : \E k \in ActiveSlots(trace.integrated) :
         k > i /\ k \notin trace.spawned

\* C21: destroying an active slot i clears the flag of slot i, releases its
\* four components, decrements the counter by one and leaves every other
\* slot, at its own index, as it was.
C21_DestroyChangesOneSlot ==
    \A i \in ActiveSlots(sgGameObjectInstanceList) :
        LET d == GameObjectInstanceDestroy(Globals, i)
        IN  /\ d.list[i].mFlag = 0
            /\ d.list[i].mpComponent_Transform = NULL
            /\ d.list[i].mpComponent_Sprite = NULL
            /\ d.list[i].mpComponent_Physics = NULL
            /\ d.list[i].mpComponent_Target = NULL
            /\ d.num = sgGameObjectInstanceNum - 1
            /\ \A k \in Slots \ {i} : d.list[k] = sgGameObjectInstanceList[k]

\* An active homing missile, which holds all four components, sits below
\* another active slot.
C21_Witness ==
    /\ Updated
    /\ \E i \in ActiveOfType(sgGameObjectInstanceList,
                             OBJECT_TYPE_HOMING_MISSILE) :
         /\ sgGameObjectInstanceList[i].mpComponent_Target # NULL
         /\ \E k \in ActiveSlots(sgGameObjectInstanceList) : k > i

\* The slots that held an active instance of type ty when the collision pass
\* of the last Update began and are inactive now.
DestroyedInPass(ty) ==
    {i \in ActiveOfType(trace.collStart, ty) :
        sgGameObjectInstanceList[i].mFlag = 0}

\* C22: in the collision pass of an Update no asteroid is found overlapping
\* twice, and the bullets and missiles the pass destroyed are no more than
\* the asteroids it destroyed.
C22_OnePartnerPerAsteroid ==
    Updated =>
        /\ \A k, l \in 1..Len(trace.hits) :
             trace.hits[k][1] = trace.hits[l][1] => k = l
        /\ Cardinality(DestroyedInPass(OBJECT_TYPE_BULLET)
                       \cup DestroyedInPass(OBJECT_TYPE_HOMING_MISSILE))
             <= Cardinality(DestroyedInPass(OBJECT_TYPE_ASTEROID))

\* The pass destroyed an asteroid on its first overlap while a bullet or a
\* missile in a higher slot overlapped the same asteroid; that one is still
\* active.
C22_Witness ==
    /\ Updated
    /\ \E h \in Hits :
         /\ sgGameObjectInstanceList[h[1]].mFlag = 0
         /\ \E j \in ActiveOfType(trace.collStart, OBJECT_TYPE_BULLET)
                     \cup ActiveOfType(trace.collStart,
                                       OBJECT_TYPE_HOMING_MISSILE) :
              /\ j # h[2]
              /\ Overlap(trace.collStart, h[1], j)
              /\ sgGameObjectInstanceList[j].mFlag = FLAG_ACTIVE

\* Every asteroid that is active in the array before and inactive in the
\* array after overlaps, in the array before, an active ship, bullet or
\* missile; for the ship, where it is or at the baseline a collision earlier
\* in the pass has put it back to.
OnlyByPartner(before, after) ==
    \A i \in ActiveOfType(before, OBJECT_TYPE_ASTEROID) :
        after[i].mFlag = 0 =>
            \E j \in ActiveSlots(before) :
                /\ TypeOf(before, j) # OBJECT_TYPE_ASTEROID
                /\ \/ Overlap(before, i, j)
                   \/ /\ TypeOf(before, j) = OBJECT_TYPE_SHIP
                      /\ Overlap(SetPos(before, j, sgpShipStartPos), i, j)

\* The array the scan of the collision pass for asteroid i leaves when it is
\* run on list.
AfterScan(list, i) ==
    CollideInner([g |-> [Globals EXCEPT !.list = list],
                  hits |-> << >>, reads |-> {}], i, 0).g.list

\* C23: an asteroid that is active before an Update is still active when the
\* collision pass of the Update begins, and is inactive when the Update
\* returns only if it overlapped the ship, a bullet or a missile in the pass.
\* The scan of an asteroid over the array with another asteroid put on top
\* of it destroys no asteroid for that: both stay unless a ship, bullet or
\* missile overlaps.
C23_AsteroidDestroyedOnlyByPartner ==
    [][(frame' = frame + 1 /\ fault' = "none") =>
         /\ \A i \in ActiveOfType(sgGameObjectInstanceList,
                                  OBJECT_TYPE_ASTEROID) :
              /\ trace'.collStart[i].mFlag = FLAG_ACTIVE
              /\ TypeOf(trace'.collStart, i) = OBJECT_TYPE_ASTEROID
         /\ OnlyByPartner(trace'.collStart, sgGameObjectInstanceList')
         /\ \A i, j \in ActiveOfType(sgGameObjectInstanceList,
                                     OBJECT_TYPE_ASTEROID) :
              i # j =>
                  OnlyByPartner(
                    SetPos(sgGameObjectInstanceList, j,
                           PosOf(sgGameObjectInstanceList, i)),
                    AfterScan(SetPos(sgGameObjectInstanceList, j,
                                     PosOf(sgGameObjectInstanceList, i)), i))
      ]_vars

\* The pass of the last Update destroyed an asteroid and left two others
\* active.
C23_Witness ==
    /\ Updated
    /\ DestroyedInPass(OBJECT_TYPE_ASTEROID) # {}
    /\ Cardinality(ActiveOfType(sgGameObjectInstanceList,
                                OBJECT_TYPE_ASTEROID)) >= 2

\* translate(p) x rotate(a) x scale(sx, sy) written out: the linear part is
\* the rotation with its columns scaled, the last column is p.
TranslateRotateScale(p, a, sx, sy) ==
    << << sx * Cos1000(a), -(sy * Sin1000(a)), p[1] >>,
       << sx * Sin1000(a), sy * Cos1000(a), p[2] >> >>

\* C24: when an Update has returned, the cached matrix of every active
\* instance is translate x rotate x scale of the position, angle and scale
\* the instance has then; after a ship-asteroid collision the ship's matrix
\* carries the baseline position; and an instance created by the Update has
\* been moved by its integration loop from where the ship was.
C24_TransformOfFinalState ==
    Updated =>
        /\ \A i \in ActiveSlots(sgGameObjectInstanceList) :
             LET t == sgGameObjectInstanceList[i].mpComponent_Transform[1]
             IN  t.mTransform =
                   TranslateRotateScale(t.mPosition, t.mAngle,
                                        t.mScaleX, t.mScaleY)
        /\ (\E h \in Hits : h[3] = OBJECT_TYPE_SHIP) =>
             LET m == sgGameObjectInstanceList[sgpShip[1]]
                        .mpComponent_Transform[1].mTransform
             IN  <<m[1][3], m[2][3]>> = sgpShipStartPos
        /\ \A i \in trace.spawned : \A k \in 1..2 :
             PosOf(trace.integrated, i)[k]
               - PosOf(trace.integrated, sgpShip[1])[k]
             = (VelOf(trace.integrated, i)[k]
                  - VelOf(trace.integrated, sgpShip[1])[k]) * input.dt

\* The collision pass of the last Update put a ship that had moved and turned
\* back to the baseline, and a bullet or missile created by the same Update
\* is active.
C24_Witness ==
    /\ Updated
    /\ \E h \in Hits : h[3] = OBJECT_TYPE_SHIP
    /\ PosOf(trace.collStart, sgpShip[1]) # sgpShipStartPos
    /\ AngleOf(sgGameObjectInstanceList, sgpShip[1]) # 0
    /\ \E i \in trace.spawned : sgGameObjectInstanceList[i].mFlag = FLAG_ACTIVE

\* p moved by velocity v for dt ticks (positions in quarter units, v in units
\* per second, a tick a quarter second).
MovedBy(p, v, dt) == <<p[1] + v[1] * dt, p[2] + v[2] * dt>>

\* The step is an Update that ran through, and slot i holds after its
\* integration loop what it held before the Update, moved by the velocity it
\* has then: nothing but the position differs, save the velocity and angle
\* the control stage gave the ship.
IntegratedFrom(i) ==
    LET before == sgGameObjectInstanceList[i]
        after == trace'.integrated[i]
    IN  IF before.mFlag = 0 THEN after = before
        ELSE /\ after.mFlag = FLAG_ACTIVE
             /\ PosOf(trace'.integrated, i)
                  = MovedBy(PosOf(sgGameObjectInstanceList, i),
                            VelOf(trace'.integrated, i), input'.dt)
             /\ IF sgpShip = <<i>>
                THEN after =
                       [before EXCEPT
                          !.mpComponent_Transform[1].mPosition =
                              PosOf(trace'.integrated, i),
                          !.mpComponent_Transform[1].mAngle =
                              AngleOf(trace'.integrated, i),
                          !.mpComponent_Physics[1].mVelocity =
                              VelOf(trace'.integrated, i)]
                ELSE after =
                       [before EXCEPT
                          !.mpComponent_Transform[1].mPosition =
                              PosOf(trace'.integrated, i)]

\* C25: the integration loop of an Update moves every instance that was
\* active before the Update by velocity x frame time and changes nothing
\* else of it, and moves every instance the Update created from the ship's
\* position by its launch velocity x frame time.  Init leaves the asteroid of
\* slot 1 at (75, 321) with velocity (60, -45), so each Update adds
\* (60, -45) x frame time to its position before the wrap.
C25_Integration ==
    [][/\ (phase' = "running" /\ input' = NoInput) =>
            /\ PosOf(sgGameObjectInstanceList', 1) = <<Q(75), Q(321)>>
            /\ VelOf(sgGameObjectInstanceList', 1) = <<60, -45>>
       /\ (frame' = frame + 1 /\ fault' = "none") =>
            /\ \A i \in Slots \ trace'.spawned : IntegratedFrom(i)
            /\ \A i \in trace'.spawned :
                 PosOf(trace'.integrated, i)
                   = MovedBy(PosOf(sgGameObjectInstanceList, sgpShip[1]),
                             VelOf(trace'.integrated, i), input'.dt)
            /\ (sgGameObjectInstanceList[1].mFlag = FLAG_ACTIVE
                /\ TypeOf(sgGameObjectInstanceList, 1) = OBJECT_TYPE_ASTEROID
                /\ VelOf(sgGameObjectInstanceList, 1) = <<60, -45>>) =>
                 PosOf(trace'.integrated, 1)
                   = << PosOf(sgGameObjectInstanceList, 1)[1] + 60 * input'.dt,
                        PosOf(sgGameObjectInstanceList, 1)[2] - 45 * input'.dt >>
      ]_vars

\* The integration loop of the last Update moved an instance of each of the
\* four types with a non-zero velocity.
C25_Witness ==
    /\ Updated
    /\ \A ty \in ObjectTypes :
         \E i \in ActiveOfType(trace.integrated, ty) :
             VelOf(trace.integrated, i) # <<0, 0>>

\* C26: from the first GameStateAsteroidsInit on, the baseline is the origin
\* and the zero velocity, whatever Updates, spawns and collisions have
\* happened; and no Create of a bullet, asteroid or missile changes it.
C26_BaselineFixed ==
    phase # "loaded" =>
        /\ sgpShipStartPos = <<0, 0>>
        /\ sgpShipStartPhys = <<0, 0>>
        /\ phase = "running" =>
             \A ty \in ObjectTypes \ {OBJECT_TYPE_SHIP} :
                 /\ GameObjectInstanceCreate(Globals, ty).g.startPos
                      = sgpShipStartPos
                 /\ GameObjectInstanceCreate(Globals, ty).g.startPhys
                      = sgpShipStartPhys

\* The last Update created a bullet or missile from a ship that was away from
\* the origin and moving, and its collision pass destroyed an asteroid.
C26_Witness ==
    /\ Updated
    /\ trace.spawned # {}
    /\ PosOf(trace.integrated, sgpShip[1]) # <<0, 0>>
    /\ VelOf(trace.integrated, sgpShip[1]) # <<0, 0>>
    /\ trace.hits # << >>

\* C27: an active instance has a Target component exactly when its type is
\* homing missile; so has every missile the behaviour loop of an Update
\* found active.
C27_TargetIffMissile ==
    /\ \A i \in ActiveSlots(sgGameObjectInstanceList) :
         sgGameObjectInstanceList[i].mpComponent_Target # NULL
           <=> TypeOf(sgGameObjectInstanceList, i) = OBJECT_TYPE_HOMING_MISSILE
    /\ Updated =>
         \A i \in ActiveOfType(trace.integrated, OBJECT_TYPE_HOMING_MISSILE) :
             /\ trace.integrated[i].mpComponent_Target # NULL
             /\ \E a \in trace.acq : a[1] = i

\* A missile and a bullet are active after an Update whose behaviour loop
\* went through the missile's Target component; the missile is not in the
\* last slot.
C27_Witness ==
    /\ Updated
    /\ ActiveOfType(sgGameObjectInstanceList, OBJECT_TYPE_BULLET) # {}
    /\ \E i \in ActiveOfType(sgGameObjectInstanceList,
                             OBJECT_TYPE_HOMING_MISSILE) :
         /\ \E a \in trace.acq : a[1] = i
         /\ i < GAME_OBJ_INST_NUM_MAX - 1

\* Velocity v after one thrust integration with its damping: v plus Accel
\* along the heading for dt ticks, the sum times 99/100.
ThrustOnce(v, angle, Accel, dt) ==
    << Trunc((Accel * Cos1000(angle) * dt + v[1] * Q(1000)) * FRICTION_NUM,
             Q(1000) * FRICTION_DEN),
       Trunc((Accel * Sin1000(angle) * dt + v[2] * Q(1000)) * FRICTION_NUM,
             Q(1000) * FRICTION_DEN) >>

\* The velocity the claim gives the ship after the control stage: one thrust
\* integration with damping for each thrust key held, forward first, and
\* nothing without a key.
VelocityAfterKeys(v, angle, in) ==
    IF "UP" \in in.curr /\ "DOWN" \in in.curr
    THEN ThrustOnce(ThrustOnce(v, angle, SHIP_ACCEL_FORWARD, in.dt),
                    angle, SHIP_ACCEL_BACKWARD, in.dt)
    ELSE IF "UP" \in in.curr
    THEN ThrustOnce(v, angle, SHIP_ACCEL_FORWARD, in.dt)
    ELSE IF "DOWN" \in in.curr
    THEN ThrustOnce(v, angle, SHIP_ACCEL_BACKWARD, in.dt)
    ELSE v

\* C28: an Update gives the ship the velocity of before with one damped
\* thrust integration for each thrust key held; with no thrust key held the
\* velocity is the one of before.  The velocity differs from that when the
\* Update returns only if its collision pass found an asteroid overlapping
\* the ship, and then it is the baseline velocity.
C28_DampingOnlyWithThrust ==
    [][(frame' = frame + 1 /\ fault' = "none") =>
         /\ VelOf(trace'.integrated, sgpShip[1])
              = VelocityAfterKeys(VelOf(sgGameObjectInstanceList, sgpShip[1]),
                                  AngleOf(sgGameObjectInstanceList, sgpShip[1]),
                                  input')
         /\ (input'.curr \cap {"UP", "DOWN"} = {}) =>
              VelOf(trace'.integrated, sgpShip[1])
                = VelOf(sgGameObjectInstanceList, sgpShip[1])
         /\ \/ VelOf(sgGameObjectInstanceList', sgpShip[1])
                 = VelOf(trace'.integrated, sgpShip[1])
            \/ /\ \E k \in 1..Len(trace'.hits) :
                    trace'.hits[k][3] = OBJECT_TYPE_SHIP
               /\ VelOf(sgGameObjectInstanceList', sgpShip[1])
                    = sgpShipStartPhys
      ]_vars

\* The last Update had no thrust key held and found no asteroid on the ship,
\* and the ship is moving.
C28_Witness ==
    /\ Updated
    /\ input.curr \cap {"UP", "DOWN"} = {}
    /\ \A h \in Hits : h[3] # OBJECT_TYPE_SHIP
    /\ VelOf(sgGameObjectInstanceList, sgpShip[1]) # <<0, 0>>

\* The counter of g is the number of slots of g whose flag is set, and lies
\* in 0 .. GAME_OBJ_INST_NUM_MAX.
CountsActive(g) ==
    /\ g.num = Cardinality(ActiveSlots(g.list))
    /\ g.num >= 0
    /\ g.num <= GAME_OBJ_INST_NUM_MAX

\* C29: in every state (after Init, after every Update, after Free)
\* sgGameObjectInstanceNum is the number of active slots and lies between 0
\* and the capacity; and so it is after a Create of any type in a running
\* game and after a Destroy of any slot.
C29_CounterIsActiveCount ==
    /\ CountsActive(Globals)
    /\ phase = "running" =>
         \A ty \in ObjectTypes :
             CountsActive(GameObjectInstanceCreate(Globals, ty).g)
    /\ \A i \in Slots : CountsActive(GameObjectInstanceDestroy(Globals, i))

\* Three Updates or more have run; the last one created an instance, its
\* collision pass destroyed some, and the store is not full.
C29_Witness ==
    /\ Updated
    /\ frame >= 3
    /\ trace.spawned # {}
    /\ trace.hits # << >>
    /\ sgGameObjectInstanceNum < GAME_OBJ_INST_NUM_MAX

====
